---- MODULE Spec2Model ----
(***************************************************************************)
(* Ledger & accrual engine of the cooperative-society backend.             *)
(*                                                                         *)
(* The stores are the MongoDB collections BankAccount, User, Investment,   *)
(* Transaction and FineSetting.  Every request handler of the controllers  *)
(* is one action of Spec; the handlers that run without a database         *)
(* transaction are additionally split into their single database calls in  *)
(* SpecConc, where two requests interleave.  SpecInvest starts from an      *)
(* account opened with a balance and follows the investments; SpecFine      *)
(* draws the joining month and the shares of a member and follows the      *)
(* fine reports.  SpecNotify follows one write request statement by        *)
(* statement through commit and notification dispatch, SpecPolicy two      *)
(* interleaved requests on the fine policy, SpecSession the life of the    *)
(* transaction of a handler through try, catch and finally, and SpecClock  *)
(* the fine of a member as the calendar month advances.                    *)
(*                                                                         *)
(* Dates are calendar-month indices (year * 12 + month): the handlers only *)
(* look at getFullYear() and getMonth().  A ledger entry keeps the fields  *)
(* the controllers write and read back (user, type, category, subcategory, *)
(* amount, bankAccount, transferDetails, referenceId).                     *)
(***************************************************************************)
EXTENDS Integers, Sequences, FiniteSets, TLC

\* ------------------------------------------------------------------ bounds
MaxTx == 2          \* ledger entries ever created in one behaviour
MaxInv == 1         \* investments ever created in one behaviour
MaxBatch == 2       \* length of userIds in one deposit batch
Today == 5          \* calendar month of "new Date()"

\* ------------------------------------------------------------- id spaces
AccountOrder == <<"a1", "a2", "a3">>
AccountIds == {AccountOrder[i] : i \in 1..Len(AccountOrder)}
UserIds == {"m1", "m2", "m3"}
Admin == "admin"
None == "none"
NoRef == 0
Amounts == {1000}

\* --------------------------------------------------------------- records
NoAccount == [status |-> "free", currentBalance |-> 0, isMotherAccount |-> FALSE]
GoneAccount == [status |-> "gone", currentBalance |-> 0, isMotherAccount |-> FALSE]
NoUser == [status |-> "gone", shares |-> 0, monthlySubscription |-> 0,
           totalDeposited |-> 0, joinMonth |-> 0]
NoInvestment == [status |-> "free", projectName |-> None, amount |-> 0,
                 bankAccount |-> None, totalProfit |-> 0]
GoneInvestment == [NoInvestment EXCEPT !.status = "gone"]

Entry(user, type, category, subcategory, amount, bankAccount, from, to, ref) ==
  [_id |-> 0, user |-> user, type |-> type, category |-> category,
   subcategory |-> subcategory, amount |-> amount, bankAccount |-> bankAccount,
   fromAccount |-> from, toAccount |-> to, referenceId |-> ref]

\* ------------------------------------------------------------- utilities
RECURSIVE SumOver(_, _)
SumOver(S, f) ==
  IF S = {} THEN 0
  ELSE LET x == CHOOSE y \in S : TRUE IN f[x] + SumOver(S \ {x}, f)

SumAmounts(E) == SumOver({e._id : e \in E}, [i \in {e._id : e \in E} |->
                   (CHOOSE e \in E : e._id = i).amount])

Max_noFloor(a, b) == b
Max(a, b) == IF a >= b THEN a ELSE b
OrDefault(x, d) == IF x = 0 THEN d ELSE x
Range(s) == {s[i] : i \in 1..Len(s)}

\* Math.round of the non-negative rational n / 100
Round100(n) == (n + 50) \div 100

\* --------------------------------------------------------- the database
Live(rec) == rec.status = "live"

\* Model.findById: the document or null
findById(coll, id) == IF id \in DOMAIN coll /\ Live(coll[id]) THEN id ELSE None

\* Investment.findById: the investment's id, or NoRef for null
findInvestment(invs, id) == IF id \in DOMAIN invs /\ Live(invs[id]) THEN id ELSE NoRef

\* BankAccount.findOne({isMotherAccount: true}): first match in natural order
MotherAccountOf(accts) ==
  LET hits == {i \in 1..Len(AccountOrder) :
                 Live(accts[AccountOrder[i]]) /\ accts[AccountOrder[i]].isMotherAccount}
  IN IF hits = {} THEN None
     ELSE AccountOrder[CHOOSE i \in hits : \A j \in hits : i <= j]

\* Transaction.create: the entry is stored under a fresh _id
Insert(db, e) ==
  [db EXCEPT !.ledger = @ \cup {[e EXCEPT !._id = db.nextTx]},
             !.nextTx = @ + 1]

\* session.abortTransaction(): every write made through the session is dropped
abortTransaction_keepsWrites(pre, staged) == staged
abortTransaction(pre, staged) == pre

\* ------------------------------------------------------ accrual calculator
FineSettingOf(fs, dflt) == IF Len(fs) = 0 THEN dflt ELSE fs[1]

\* the reductions subtracted without Math.max(0, ...)
calculateFineLogic_noClamp(member, settings, totalReduced) ==
  LET monthlyInstallment == OrDefault(member.shares, 1)
                              * OrDefault(member.monthlySubscription, 1000)
      months == {c \in (member.joinMonth + 1)..(Today - 1) :
                   (Today - c) - 1 > settings.gracePeriodMonths}
      gross100 == SumOver(months, [c \in months |->
                    ((Today - c) - 1) * monthlyInstallment * settings.finePercentage])
  IN [fine |-> Round100(gross100) - totalReduced,
      months |-> Cardinality(months),
      totalReduced |-> totalReduced]

\* every overdue month charged once, whatever its age
calculateFineLogic_flatPenalty(member, settings, totalReduced) ==
  LET monthlyInstallment == OrDefault(member.shares, 1)
                              * OrDefault(member.monthlySubscription, 1000)
      months == {c \in (member.joinMonth + 1)..(Today - 1) :
                   (Today - c) - 1 > settings.gracePeriodMonths}
      gross100 == Cardinality(months) * monthlyInstallment * settings.finePercentage
  IN [fine |-> Max(0, Round100(gross100) - totalReduced),
      months |-> Cardinality(months),
      totalReduced |-> totalReduced]

\* the reductions taken off once per overdue month
calculateFineLogicAt_reducedPerMonth(today, member, settings, totalReduced) ==
  LET monthlyInstallment == OrDefault(member.shares, 1)
                              * OrDefault(member.monthlySubscription, 1000)
      months == {c \in (member.joinMonth + 1)..(today - 1) :
                   (today - c) - 1 > settings.gracePeriodMonths}
      gross100 == SumOver(months, [c \in months |->
                    ((today - c) - 1) * monthlyInstallment * settings.finePercentage])
  IN [fine |-> Round100(gross100) - totalReduced * Cardinality(months),
      months |-> Cardinality(months),
      totalReduced |-> totalReduced]

\* calculateFineLogic with `today = new Date()` falling in calendar month today
calculateFineLogicAt(today, member, settings, totalReduced) ==
  LET monthlyInstallment == OrDefault(member.shares, 1)
                              * OrDefault(member.monthlySubscription, 1000)
      months == {c \in (member.joinMonth + 1)..(today - 1) :
                   (today - c) - 1 > settings.gracePeriodMonths}
      gross100 == SumOver(months, [c \in months |->
                    ((today - c) - 1) * monthlyInstallment * settings.finePercentage])
  IN [fine |-> Max(0, Round100(gross100) - totalReduced),
      months |-> Cardinality(months),
      totalReduced |-> totalReduced]

calculateFineLogic(member, settings, totalReduced) ==
  calculateFineLogicAt(Today, member, settings, totalReduced)

\* Transaction.aggregate: sum of the member's fine_waiver / fine_payment entries
FineReductions(ldg, uid) ==
  SumAmounts({e \in ldg : e.user = uid /\ e.category \in {"fine_waiver", "fine_payment"}})

VARIABLES accounts, users, investments, ledger, nextTx, nextInv, fineSettings,
          last, undo, pc, loc

vars == <<accounts, users, investments, ledger, nextTx, nextInv, fineSettings,
          last, undo, pc, loc>>

DB == [accounts |-> accounts, users |-> users, investments |-> investments,
       ledger |-> ledger, nextTx |-> nextTx, nextInv |-> nextInv]

\* ---------------------------------------------------- handler scaffolding
\* A handler performs its database writes in order; writes[k] is the database
\* after the k-th write.  failAt = k > 0 makes the k-th write throw.
RunWrites(pre, writes, failAt) ==
  IF failAt = 0 \/ failAt > Len(writes)
  THEN [db |-> IF Len(writes) = 0 THEN pre ELSE writes[Len(writes)],
        ok |-> TRUE, err |-> None, w |-> Len(writes)]
  ELSE [db |-> IF failAt = 1 THEN pre ELSE writes[failAt - 1],
        ok |-> FALSE, err |-> "Exception", w |-> failAt - 1]

Reject(pre, err) == [db |-> pre, ok |-> FALSE, err |-> err, w |-> 0]

\* try { ... commitTransaction } catch { abortTransaction }
InTransaction(pre, r) ==
  IF r.ok THEN r ELSE [r EXCEPT !.db = abortTransaction(pre, r.db)]

\* --------------------------------------------------- bankAccountController
FirstFreeAccount(accts) ==
  LET free == {i \in 1..Len(AccountOrder) : accts[AccountOrder[i]].status = "free"}
  IN IF free = {} THEN None
     ELSE AccountOrder[CHOOSE i \in free : \A j \in free : i <= j]

\* BankAccount.updateMany({}, {isMotherAccount: false})
ClearMother(db) ==
  [db EXCEPT !.accounts = [a \in AccountIds |->
      IF Live(db.accounts[a]) THEN [db.accounts[a] EXCEPT !.isMotherAccount = FALSE]
      ELSE db.accounts[a]]]

CreateAccount(db, id, body) ==
  [db EXCEPT !.accounts[id] = [status |-> "live",
                               currentBalance |-> body.currentBalance,
                               isMotherAccount |-> body.isMotherAccount]]

addBankAccount(db, body, failAt) ==
  LET id == FirstFreeAccount(db.accounts)
      d1 == ClearMother(db)
      writes == IF body.isMotherAccount
                THEN <<d1, CreateAccount(d1, id, body)>>
                ELSE <<CreateAccount(db, id, body)>>
  IN RunWrites(db, writes, failAt)

\* $set: req.body on the account, for the fields the body carries
SetBody(acct, body) ==
  [acct EXCEPT !.isMotherAccount = IF body.hasMother THEN body.isMotherAccount ELSE @,
               !.currentBalance = IF body.hasBalance THEN body.currentBalance ELSE @]

updateBankAccount(db, id, body, failAt) ==
  LET clear == body.hasMother /\ body.isMotherAccount
      d1 == IF clear THEN ClearMother(db) ELSE db
      found == findById(d1.accounts, id) # None
      d2 == IF found THEN [d1 EXCEPT !.accounts[id] = SetBody(@, body)] ELSE d1
      writes == IF clear THEN <<d1, d2>> ELSE <<d2>>
      r == RunWrites(db, writes, failAt)
  IN IF r.ok /\ ~found THEN [r EXCEPT !.ok = FALSE, !.err = "NotFound"] ELSE r

deleteBankAccount(db, id, failAt) ==
  IF findById(db.accounts, id) = None THEN Reject(db, "NotFound")
  ELSE IF db.accounts[id].currentBalance > 0 THEN Reject(db, "ActiveBalance")
  ELSE RunWrites(db, <<[db EXCEPT !.accounts[id] = GoneAccount]>>, failAt)

\* fromAccount.currentBalance < transferAmount
InsufficientSource_never(fromAccount, transferAmount) == FALSE
InsufficientSource(fromAccount, transferAmount) ==
  fromAccount.currentBalance < transferAmount

transferBalance(db, fromAccountId, toAccountId, amount, failAt) ==
  IF findById(db.accounts, fromAccountId) = None
     \/ findById(db.accounts, toAccountId) = None
  THEN Reject(db, "NotFound")
  ELSE IF InsufficientSource(db.accounts[fromAccountId], amount)
  THEN Reject(db, "InsufficientFunds")
  ELSE
    LET fromBal == db.accounts[fromAccountId].currentBalance - amount
        toBal == db.accounts[toAccountId].currentBalance + amount
        d1 == [db EXCEPT !.accounts[fromAccountId].currentBalance = fromBal]
        d2 == [d1 EXCEPT !.accounts[toAccountId].currentBalance = toBal]
        d3 == Insert(d2, Entry(None, "transfer", "internal_transfer",
                               "Treasury Movement", amount, toAccountId,
                               fromAccountId, toAccountId, NoRef))
    IN InTransaction(db, RunWrites(db, <<d1, d2, d3>>, failAt))

\* -------------------------------------------------------- memberController
deleteMember(db, id, failAt) ==
  IF findById(db.users, id) = None THEN Reject(db, "NotFound")
  ELSE RunWrites(db, <<[db EXCEPT !.users[id] = NoUser]>>, failAt)

\* ------------------------------------------------- finance: deposit batch
DepositDefaultSettings == [gracePeriodMonths |-> 2, finePercentage |-> 5]

ShareAmount(user) == OrDefault(user.shares, 1) * 1000

\* the writes of the loop body for one id of userIds, starting from db
depositMember(db, id, paying, settings, committed, mother) ==
  IF findById(db.users, id) = None THEN [writes |-> <<>>, total |-> 0]
  ELSE
    LET user == db.users[id]
        shareAmount == ShareAmount(user)
        fineToPay == IF id \in paying
                     THEN calculateFineLogic(user, settings,
                                             FineReductions(committed, id)).fine
                     ELSE 0
        dFine == Insert(db, Entry(id, "deposit", "fine_payment", None, fineToPay,
                                  mother, None, None, NoRef))
        d0 == IF fineToPay > 0 THEN dFine ELSE db
        d1 == [d0 EXCEPT !.users[id].totalDeposited = @ + shareAmount]
        d2 == Insert(d1, Entry(id, "deposit", "monthly_deposit",
                               "Member Monthly Share", shareAmount, mother,
                               None, None, NoRef))
    IN [writes |-> (IF fineToPay > 0 THEN <<dFine>> ELSE <<>>) \o <<d1, d2>>,
        total |-> shareAmount + fineToPay]

RECURSIVE depositLoop(_, _, _, _, _, _)
depositLoop(db, userIds, paying, settings, committed, mother) ==
  IF userIds = <<>> THEN [writes |-> <<>>, total |-> 0, db |-> db]
  ELSE
    LET m == depositMember(db, Head(userIds), paying, settings, committed, mother)
        dNext == IF Len(m.writes) = 0 THEN db ELSE m.writes[Len(m.writes)]
        rest == depositLoop(dNext, Tail(userIds), paying, settings, committed, mother)
    IN [writes |-> m.writes \o rest.writes, total |-> m.total + rest.total,
        db |-> rest.db]

\* committed: the ledger as read outside the session (the fine aggregate)
processDeposit(db, fs, committed, userIds, membersPayingFine, failAt) ==
  LET mother == MotherAccountOf(db.accounts)
      settings == FineSettingOf(fs, DepositDefaultSettings)
  IN IF mother = None THEN Reject(db, "NoMotherAccount")
     ELSE
       LET loop == depositLoop(db, userIds, membersPayingFine, settings,
                               committed, mother)
           dSave == [loop.db EXCEPT !.accounts[mother].currentBalance =
                       db.accounts[mother].currentBalance + loop.total]
       IN InTransaction(db, RunWrites(db, loop.writes \o <<dSave>>, failAt))

\* ------------------------------------------------------- finance: expense
addExpense(db, amount, bankAccountId, failAt) ==
  IF findById(db.accounts, bankAccountId) = None THEN Reject(db, "NotFound")
  ELSE
    LET d1 == Insert(db, Entry(None, "expense", "General Expense", None, amount,
                               bankAccountId, None, None, NoRef))
        d2 == [d1 EXCEPT !.accounts[bankAccountId].currentBalance =
                 db.accounts[bankAccountId].currentBalance - amount]
    IN RunWrites(db, <<d1, d2>>, failAt)

\* --------------------------------------------------- finance: investments
\* fundingBank.currentBalance < Number(amount)
InsufficientFunding_never(fundingBank, amount) == FALSE
InsufficientFunding(fundingBank, amount) == fundingBank.currentBalance < amount

addInvestment(db, projectName, amount, bankAccount, failAt) ==
  IF findById(db.accounts, bankAccount) = None THEN Reject(db, "NotFound")
  ELSE IF InsufficientFunding(db.accounts[bankAccount], amount)
  THEN Reject(db, "InsufficientFunds")
  ELSE
    LET inv == db.nextInv
        d1 == [db EXCEPT !.investments[inv] =
                 [status |-> "live", projectName |-> projectName, amount |-> amount,
                  bankAccount |-> bankAccount, totalProfit |-> 0],
               !.nextInv = @ + 1]
        d2 == [d1 EXCEPT !.accounts[bankAccount].currentBalance =
                 db.accounts[bankAccount].currentBalance - amount]
        d3 == Insert(d2, Entry(Admin, "investment", "Investment", projectName,
                               amount, bankAccount, None, None, inv))
    IN InTransaction(db, RunWrites(db, <<d1, d2, d3>>, failAt))

\* type === "expense" ? -= numericAmount : += numericAmount
ProfitSign_alwaysAdds(type) == 1
ProfitSign(type) == IF type = "expense" THEN -1 ELSE 1

recordInvestmentProfit(db, id, amount, type, bankAccountId, failAt) ==
  IF findInvestment(db.investments, id) = NoRef THEN Reject(db, "NotFound")
  ELSE IF findById(db.accounts, bankAccountId) = None
  THEN Reject(db, "BankAccountNotFound")
  ELSE
    LET sign == ProfitSign(type)
        d1 == [db EXCEPT !.investments[id].totalProfit = @ + sign * amount]
        d2 == [d1 EXCEPT !.accounts[bankAccountId].currentBalance = @ + sign * amount]
        d3 == Insert(d2, Entry(None, IF type = "expense" THEN "expense" ELSE "deposit",
                               IF type = "expense" THEN "investment_expense"
                                                   ELSE "investment_profit",
                               db.investments[id].projectName, amount,
                               bankAccountId, None, None, id))
    IN InTransaction(db, RunWrites(db, <<d1, d2, d3>>, failAt))

\* closingValue = 0 and bankAccount = None stand for fields the body omits
deleteInvestment(db, id, closingValue, bankAccount, failAt) ==
  IF findInvestment(db.investments, id) = NoRef THEN Reject(db, "NotFound")
  ELSE
    LET investment == db.investments[id]
        targetBank == findById(db.accounts,
                        IF bankAccount # None THEN bankAccount
                                              ELSE investment.bankAccount)
        credit == targetBank # None /\ closingValue # 0
        d1 == [db EXCEPT !.accounts[targetBank].currentBalance = @ + closingValue]
        d2 == Insert(d1, Entry(Admin, "deposit", "Investment",
                               investment.projectName, closingValue, targetBank,
                               None, None, NoRef))
        d0 == IF credit THEN d2 ELSE db
        d3 == [d0 EXCEPT !.investments[id] = GoneInvestment]
    IN InTransaction(db, RunWrites(db,
         (IF credit THEN <<d1, d2>> ELSE <<>>) \o <<d3>>, failAt))

\* --------------------------------------------------- transactionController
\* category.toLowerCase().includes("investment")
IncludesInvestmentAnyCase(category) ==
  category \in {"Investment", "investment_profit", "investment_expense"}

\* category.includes("investment")
IncludesInvestment(category) ==
  category \in {"investment_profit", "investment_expense"}

\* Investment.findOne({projectName: /^subcategory$/i}): first match
findProjectByName(invs, name) ==
  LET hits == {i \in DOMAIN invs : Live(invs[i]) /\ invs[i].projectName = name}
  IN IF hits = {} THEN NoRef ELSE CHOOSE i \in hits : \A j \in hits : i <= j

createTransaction(db, type, category, subcategory, amount, userId, bankAccount, failAt) ==
  IF amount = 0 \/ bankAccount = None THEN Reject(db, "ValidationError")
  ELSE IF findById(db.accounts, bankAccount) = None THEN Reject(db, "NotFound")
  ELSE
    LET project == IF IncludesInvestmentAnyCase(category) /\ subcategory # None
                   THEN findProjectByName(db.investments, subcategory)
                   ELSE NoRef
        d1 == IF project = NoRef THEN db
              ELSE [db EXCEPT !.investments[project].totalProfit =
                      IF type = "deposit" THEN @ + amount
                      ELSE IF type = "expense" THEN @ - amount ELSE @]
        balance == db.accounts[bankAccount].currentBalance
        d2 == [d1 EXCEPT !.accounts[bankAccount].currentBalance =
                 IF type = "deposit" THEN balance + amount
                 ELSE IF type = "expense" THEN balance - amount ELSE balance]
        d3 == Insert(d2, Entry(userId, type, category, subcategory, amount,
                               bankAccount, None, None, NoRef))
    IN IF type = "expense" /\ balance < amount
       THEN InTransaction(db, [db |-> d1, ok |-> FALSE,
                               err |-> "InsufficientFunds",
                               w |-> IF project = NoRef THEN 0 ELSE 1])
       ELSE InTransaction(db, RunWrites(db,
              (IF project = NoRef THEN <<>> ELSE <<d1>>) \o <<d2, d3>>, failAt))

\* ------------------------------------------------------- finance: fines
waiveFinePartial(db, userId, waiveAmount, failAt) ==
  IF userId = None \/ waiveAmount = 0 THEN Reject(db, "ValidationError")
  ELSE RunWrites(db, <<Insert(db, Entry(userId, "adjustment", "fine_waiver", None,
                                        waiveAmount, None, None, None, NoRef))>>,
                 failAt)

collectPaidFine_noCredit(db, userId, amount, bankAccountId, failAt) ==
  IF findById(db.accounts, bankAccountId) = None THEN Reject(db, "NotFound")
  ELSE InTransaction(db, RunWrites(db,
         <<Insert(db, Entry(userId, "deposit", "fine_payment", None, amount,
                            bankAccountId, None, None, NoRef))>>, failAt))

collectPaidFine(db, userId, amount, bankAccountId, failAt) ==
  IF findById(db.accounts, bankAccountId) = None THEN Reject(db, "NotFound")
  ELSE
    LET d1 == Insert(db, Entry(userId, "deposit", "fine_payment", None, amount,
                               bankAccountId, None, None, NoRef))
        d2 == [d1 EXCEPT !.accounts[bankAccountId].currentBalance =
                 db.accounts[bankAccountId].currentBalance + amount]
    IN InTransaction(db, RunWrites(db, <<d1, d2>>, failAt))

\* ----------------------------------------------- finance: ledger reversal
\* transaction.deleteOne({session})
deleteOne_keeps(ldg, transaction) == ldg
deleteOne(ldg, transaction) == ldg \ {transaction}

deleteTransaction(db, id, failAt) ==
  IF ~\E e \in db.ledger : e._id = id THEN Reject(db, "NotFound")
  ELSE
    LET transaction == CHOOSE e \in db.ledger : e._id = id
        bank == IF transaction.bankAccount # None
                THEN findById(db.accounts, transaction.bankAccount) ELSE None
        d1 == IF bank = None THEN db
              ELSE [db EXCEPT !.accounts[bank].currentBalance =
                      IF transaction.type = "deposit" THEN @ - transaction.amount
                      ELSE IF transaction.type = "expense" THEN @ + transaction.amount
                      ELSE @]
        user == IF transaction.user # None /\ transaction.category = "monthly_deposit"
                THEN findById(db.users, transaction.user) ELSE None
        d2 == IF user = None THEN d1
              ELSE [d1 EXCEPT !.users[user].totalDeposited = @ - transaction.amount]
        project == IF transaction.referenceId # NoRef
                      /\ IncludesInvestment(transaction.category)
                   THEN findInvestment(db.investments, transaction.referenceId)
                   ELSE NoRef
        d3 == IF project = NoRef THEN d2
              ELSE [d2 EXCEPT !.investments[project].totalProfit =
                      IF transaction.type = "deposit" THEN @ - transaction.amount
                      ELSE @ + transaction.amount]
        d4 == [d3 EXCEPT !.ledger = deleteOne(@, transaction)]
    IN InTransaction(db, RunWrites(db,
         (IF bank = None THEN <<>> ELSE <<d1>>)
           \o (IF user = None THEN <<>> ELSE <<d2>>)
           \o (IF project = NoRef THEN <<>> ELSE <<d3>>)
           \o <<d4>>, failAt))

\* ------------------------------------------------ finance: fine reports
ReportDefaultSettings == [gracePeriodMonths |-> 1, finePercentage |-> 5]

\* the dashboard of the member who is logged in: its own loop over the months
getMemberSummary(db, fs, userId) ==
  LET activeSettings == FineSettingOf(fs, ReportDefaultSettings)
      totalReduced == FineReductions(db.ledger, userId)
  IN IF findById(db.users, userId) = None
     THEN [totalFineDue |-> 0, overdueMonths |-> 0]
     ELSE
       LET userDetails == db.users[userId]
           shareCount == OrDefault(userDetails.shares, 1)
           monthlyInstallment == OrDefault(userDetails.monthlySubscription,
                                           shareCount * 1000)
           months == {c \in (userDetails.joinMonth + 1)..(Today - 1) :
                        (Today - c) - 1 > activeSettings.gracePeriodMonths}
           totalFineDue ==
             SumOver(months, [c \in months |->
               Round100(((Today - c) - 1) * monthlyInstallment
                          * activeSettings.finePercentage)])
       IN [totalFineDue |-> Max(0, totalFineDue - totalReduced),
           overdueMonths |-> Cardinality(months)]

\* the registry of the active members who owe a fine or have overdue months
getDefaulterList(db, fs) ==
  LET settings == FineSettingOf(fs, ReportDefaultSettings)
      calc(u) == calculateFineLogic(db.users[u], settings,
                                    FineReductions(db.ledger, u))
      defaulters == {u \in UserIds :
                       Live(db.users[u]) /\ (calc(u).fine > 0 \/ calc(u).months > 0)}
  IN [u \in defaulters |->
        [totalFineDue |-> calc(u).fine, overdueMonths |-> calc(u).months]]

\* ------------------------------------------------ finance: fine settings
\* FineSetting.findOne() || FineSetting.create({1, 5})
getFineSettings(fs) ==
  IF Len(fs) = 0 THEN <<[gracePeriodMonths |-> 1, finePercentage |-> 5]>> ELSE fs

\* the validation of updateFineSettings: a body without gracePeriodMonths or
\* without finePercentage is answered 400
Undefined == 0 - 1

ParametersRequired_never(gracePeriodMonths, finePercentage) == FALSE

ParametersRequired(gracePeriodMonths, finePercentage) ==
  gracePeriodMonths = Undefined \/ finePercentage = Undefined

\* FineSetting.findOneAndUpdate({}, {...}, {upsert: true})
updateFineSettings(fs, gracePeriodMonths, finePercentage) ==
  IF ParametersRequired(gracePeriodMonths, finePercentage) THEN fs
  ELSE IF Len(fs) = 0
  THEN <<[gracePeriodMonths |-> gracePeriodMonths, finePercentage |-> finePercentage]>>
  ELSE [fs EXCEPT ![1] = [gracePeriodMonths |-> gracePeriodMonths,
                          finePercentage |-> finePercentage]]

\* ------------------------------------------------------------ initial state
InitAccounts ==
  [a \in AccountIds |->
     IF a = "a1" THEN [status |-> "live", currentBalance |-> 0, isMotherAccount |-> TRUE]
     ELSE IF a = "a2" THEN [status |-> "live", currentBalance |-> 0,
                            isMotherAccount |-> FALSE]
     ELSE NoAccount]

\* members as createMember stores them: monthlySubscription = shares * 1000
createMember(shares, joinMonth) ==
  [status |-> "live", shares |-> OrDefault(shares, 1),
   monthlySubscription |-> OrDefault(shares, 1) * 1000,
   totalDeposited |-> 0, joinMonth |-> joinMonth]

InitUsers ==
  [u \in UserIds |->
     IF u = "m1" THEN createMember(1, 0)
     ELSE IF u = "m2" THEN createMember(2, 3)
     ELSE NoUser]

NoUndo == [active |-> FALSE]

\* no response is on its way to the client
NoResponse == [op |-> None, ok |-> TRUE, err |-> None, wrote |-> FALSE, kind |-> None]

Idle == [op |-> "idle"]
Procs == {"p1", "p2"}

Init ==
  /\ accounts = InitAccounts
  /\ users = InitUsers
  /\ investments = [i \in 1..MaxInv |-> NoInvestment]
  /\ ledger = {}
  /\ nextTx = 1
  /\ nextInv = 1
  /\ fineSettings = <<>>
  /\ last = NoResponse
  /\ undo = NoUndo
  /\ pc = [p \in Procs |-> "idle"]
  /\ loc = [p \in Procs |-> Idle]

\* ------------------------------------------------- one request = one action
\* The handler ran on the current database and left r.  last remembers the
\* request: which handler, what it reported, whether it had written anything
\* when it finished or threw, and the kind of request where a property needs it.
Totals(db) ==
  [balance |-> [a \in AccountIds |-> db.accounts[a].currentBalance],
   deposited |-> [u \in UserIds |-> db.users[u].totalDeposited],
   profit |-> [i \in DOMAIN db.investments |-> db.investments[i].totalProfit]]

\* undo follows a request that created ledger entries for as long as the next
\* requests delete exactly those entries: pre holds the totals before it
Track(op, r) ==
  LET created == {e._id : e \in r.db.ledger \ ledger}
      deleted == {e._id : e \in ledger \ r.db.ledger}
  IN IF r.ok /\ created # {}
     THEN [active |-> TRUE, pre |-> Totals(DB), pending |-> created]
     ELSE IF r.ok /\ op = "deleteTransaction" /\ undo.active
             /\ deleted \subseteq undo.pending
     THEN [undo EXCEPT !.pending = @ \ deleted]
     ELSE NoUndo

Respond(op, kind, r) ==
  /\ undo' = Track(op, r)
  /\ accounts' = r.db.accounts
  /\ users' = r.db.users
  /\ investments' = r.db.investments
  /\ ledger' = r.db.ledger
  /\ nextTx' = r.db.nextTx
  /\ nextInv' = r.db.nextInv
  /\ last' = [op |-> op, ok |-> r.ok, err |-> r.err, wrote |-> r.w > 0, kind |-> kind]
  /\ UNCHANGED <<fineSettings, pc, loc>>

\* The server has answered the previous request; a request starts from the
\* stored data only.  Deliver hands the pending response to the client.
Ready == last = NoResponse

Deliver ==
  /\ last # NoResponse
  /\ last' = NoResponse
  /\ UNCHANGED <<accounts, users, investments, ledger, nextTx, nextInv, fineSettings,
                 undo, pc, loc>>

\* the ids the model may still hand out
Room(r0) == r0.db.nextTx <= MaxTx + 1 /\ r0.db.nextInv <= MaxInv + 1
FailPoints(r0) == IF r0.ok THEN 0..r0.w ELSE {0}

SeqsUpTo(S, n) == UNION {[1..k -> S] : k \in 0..n}

\* membersPayingFine of a request: nobody, or every member of the batch
PayingChoices(userIds) == {{}, Range(userIds)}

ProcessDeposit ==
  /\ Ready
  /\ \E userIds \in SeqsUpTo(UserIds, MaxBatch) :
       \E paying \in PayingChoices(userIds) :
         LET r0 == processDeposit(DB, fineSettings, ledger, userIds, paying, 0)
         IN /\ Room(r0)
            /\ \E failAt \in FailPoints(r0) :
                 Respond("processDeposit",
                         IF \E id \in Range(userIds) : findById(users, id) = None
                         THEN "missingMember" ELSE None,
                         processDeposit(DB, fineSettings, ledger, userIds, paying, failAt))

AddExpense ==
  /\ Ready
  /\ \E amount \in Amounts, bankAccountId \in AccountIds :
       LET r0 == addExpense(DB, amount, bankAccountId, 0)
       IN /\ Room(r0)
          /\ \E failAt \in FailPoints(r0) :
               Respond("addExpense", None, addExpense(DB, amount, bankAccountId, failAt))

AddInvestment ==
  /\ Ready
  /\ nextInv <= MaxInv
  /\ \E amount \in Amounts, bankAccount \in AccountIds :
       LET r0 == addInvestment(DB, "P", amount, bankAccount, 0)
       IN /\ Room(r0)
          /\ \E failAt \in FailPoints(r0) :
               Respond("addInvestment",
                       IF findById(accounts, bankAccount) # None
                          /\ amount > accounts[bankAccount].currentBalance
                       THEN "overdraw" ELSE None,
                       addInvestment(DB, "P", amount, bankAccount, failAt))

RecordInvestmentProfit ==
  /\ Ready
  /\ \E id \in 1..MaxInv, amount \in Amounts, type \in {"profit", "expense"},
        bankAccountId \in AccountIds :
       LET r0 == recordInvestmentProfit(DB, id, amount, type, bankAccountId, 0)
       IN /\ Room(r0)
          /\ \E failAt \in FailPoints(r0) :
               Respond("recordInvestmentProfit",
                       IF findById(accounts, bankAccountId) = None
                       THEN "noBank" ELSE type,
                       recordInvestmentProfit(DB, id, amount, type, bankAccountId, failAt))

\* what a liquidation request asks for: the account to credit when the body
\* carries a closingValue ("noTarget" when that account is not stored)
LiquidationKind(id, closingValue, bankAccount) ==
  IF findInvestment(investments, id) = NoRef THEN None
  ELSE IF closingValue = 0 THEN "noClosingValue"
  ELSE LET targetBank == findById(accounts,
                           IF bankAccount # None THEN bankAccount
                                                 ELSE investments[id].bankAccount)
       IN IF targetBank = None THEN "noTarget" ELSE targetBank

DeleteInvestment ==
  /\ Ready
  /\ \E id \in 1..MaxInv, closingValue \in {0} \cup Amounts,
        bankAccount \in {None} \cup AccountIds :
       LET r0 == deleteInvestment(DB, id, closingValue, bankAccount, 0)
       IN /\ Room(r0)
          /\ \E failAt \in FailPoints(r0) :
               Respond("deleteInvestment",
                       LiquidationKind(id, closingValue, bankAccount),
                       deleteInvestment(DB, id, closingValue, bankAccount, failAt))

TransferBalance ==
  /\ Ready
  /\ \E fromAccountId \in AccountIds, toAccountId \in AccountIds, amount \in Amounts :
       LET r0 == transferBalance(DB, fromAccountId, toAccountId, amount, 0)
       IN /\ Room(r0)
          /\ \E failAt \in FailPoints(r0) :
               Respond("transferBalance",
                       IF findById(accounts, fromAccountId) # None
                          /\ accounts[fromAccountId].currentBalance < amount
                       THEN (IF findById(accounts, toAccountId) # None
                             THEN "overdraw" ELSE "overdrawNoDestination")
                       ELSE None,
                       transferBalance(DB, fromAccountId, toAccountId, amount, failAt))

\* (category, subcategory, userId) of the direct-entry form
EntryKinds == {<<"monthly_deposit", None, "m1">>, <<"Investment", "P", None>>,
               <<"other", None, None>>}

CreateTransaction ==
  /\ Ready
  /\ \E type \in {"deposit", "expense"}, k \in EntryKinds,
        amount \in Amounts, bankAccount \in AccountIds :
       LET r0 == createTransaction(DB, type, k[1], k[2], amount, k[3], bankAccount, 0)
       IN /\ Room(r0)
          /\ \E failAt \in FailPoints(r0) :
               Respond("createTransaction", None,
                       createTransaction(DB, type, k[1], k[2], amount, k[3],
                                         bankAccount, failAt))

WaiveFinePartial ==
  /\ Ready
  /\ \E userId \in {"m1"}, waiveAmount \in {100} :
       LET r0 == waiveFinePartial(DB, userId, waiveAmount, 0)
       IN /\ Room(r0)
          /\ \E failAt \in FailPoints(r0) :
               Respond("waiveFinePartial", None,
                       waiveFinePartial(DB, userId, waiveAmount, failAt))

CollectPaidFine ==
  /\ Ready
  /\ \E userId \in {"m1"}, amount \in {100}, bankAccountId \in AccountIds :
       LET r0 == collectPaidFine(DB, userId, amount, bankAccountId, 0)
       IN /\ Room(r0)
          /\ \E failAt \in FailPoints(r0) :
               Respond("collectPaidFine", None,
                       collectPaidFine(DB, userId, amount, bankAccountId, failAt))

\* the records an entry names for its reversal, and whether each is stored
NamesAccount(e) == e.bankAccount # None
NamesMember(e) == e.user # None /\ e.category = "monthly_deposit"
NamesInvestment(e) == e.referenceId # NoRef /\ IncludesInvestment(e.category)

Dangling(db, e) ==
  \/ NamesAccount(e) /\ findById(db.accounts, e.bankAccount) = None
  \/ NamesMember(e) /\ findById(db.users, e.user) = None
  \/ NamesInvestment(e) /\ findInvestment(db.investments, e.referenceId) = NoRef

DeleteTransaction ==
  /\ Ready
  /\ \E id \in 1..MaxTx :
       LET r0 == deleteTransaction(DB, id, 0)
       IN \E failAt \in FailPoints(r0) :
            Respond("deleteTransaction",
                    IF \E e \in ledger : e._id = id /\ Dangling(DB, e)
                    THEN "dangling" ELSE None,
                    deleteTransaction(DB, id, failAt))

NewAccountBodies == [isMotherAccount : BOOLEAN, currentBalance : {0, 1000}]

AddBankAccount ==
  /\ Ready
  /\ FirstFreeAccount(accounts) # None
  /\ \E body \in NewAccountBodies :
       LET r0 == addBankAccount(DB, body, 0)
       IN \E failAt \in FailPoints(r0) :
            Respond("addBankAccount",
                    IF body.isMotherAccount THEN "setPrimary" ELSE None,
                    addBankAccount(DB, body, failAt))

UpdateBodies ==
  {[hasMother |-> TRUE, isMotherAccount |-> TRUE, hasBalance |-> FALSE,
    currentBalance |-> 0],
   [hasMother |-> TRUE, isMotherAccount |-> FALSE, hasBalance |-> FALSE,
    currentBalance |-> 0],
   [hasMother |-> FALSE, isMotherAccount |-> FALSE, hasBalance |-> TRUE,
    currentBalance |-> 1000]}

UpdateBankAccount ==
  /\ Ready
  /\ \E id \in AccountIds, body \in UpdateBodies :
       LET r0 == updateBankAccount(DB, id, body, 0)
       IN \E failAt \in FailPoints(r0) :
            Respond("updateBankAccount",
                    IF body.hasMother /\ body.isMotherAccount THEN "setPrimary" ELSE None,
                    updateBankAccount(DB, id, body, failAt))

DeleteBankAccount ==
  /\ Ready
  /\ \E id \in AccountIds :
       LET r0 == deleteBankAccount(DB, id, 0)
       IN \E failAt \in FailPoints(r0) :
            Respond("deleteBankAccount", None, deleteBankAccount(DB, id, failAt))

DeleteMember ==
  /\ Ready
  /\ \E id \in UserIds :
       LET r0 == deleteMember(DB, id, 0)
       IN \E failAt \in FailPoints(r0) :
            Respond("deleteMember", None, deleteMember(DB, id, failAt))

GetFineSettings ==
  /\ Ready
  /\ fineSettings' = getFineSettings(fineSettings)
  /\ last' = [op |-> "getFineSettings", ok |-> TRUE, err |-> None,
              wrote |-> Len(fineSettings) = 0, kind |-> None]
  /\ UNCHANGED <<accounts, users, investments, ledger, nextTx, nextInv, undo, pc, loc>>

UpdateFineSettings ==
  /\ Ready
  /\ \E g \in 0..2, p \in {5} :
       /\ fineSettings' = updateFineSettings(fineSettings, g, p)
       /\ last' = [op |-> "updateFineSettings", ok |-> TRUE, err |-> None,
                   wrote |-> TRUE, kind |-> None]
       /\ UNCHANGED <<accounts, users, investments, ledger, nextTx, nextInv, undo, pc, loc>>

\* a read request: the response carries the computed figures
Report(op, data) ==
  /\ last' = [op |-> op, ok |-> TRUE, err |-> None, wrote |-> FALSE, kind |-> None,
              data |-> data]
  /\ UNCHANGED <<accounts, users, investments, ledger, nextTx, nextInv, fineSettings,
                 undo, pc, loc>>

GetMemberSummary ==
  /\ Ready
  /\ \E userId \in UserIds :
       Report("getMemberSummary",
              [user |-> userId, summary |-> getMemberSummary(DB, fineSettings, userId)])

GetDefaulterList ==
  /\ Ready
  /\ Report("getDefaulterList", getDefaulterList(DB, fineSettings))

\* the ledger engine: every request that moves money
Next ==
  \/ ProcessDeposit
  \/ AddExpense
  \/ AddInvestment
  \/ RecordInvestmentProfit
  \/ DeleteInvestment
  \/ TransferBalance
  \/ CreateTransaction
  \/ WaiveFinePartial
  \/ CollectPaidFine
  \/ DeleteTransaction
  \/ Deliver

Spec == Init /\ [][Next]_vars

\* the treasury registry: administrative requests on the bank accounts, with
\* a request that moves an account's balance
NextAdmin ==
  \/ AddBankAccount
  \/ UpdateBankAccount
  \/ DeleteBankAccount
  \/ AddExpense
  \/ Deliver

SpecAdmin == Init /\ [][NextAdmin]_vars

\* the investment desk: the primary account was opened with a balance
\* (addBankAccount stores the currentBalance of the request body), projects
\* are funded, earn, are liquidated, and entries are reversed after the
\* records they name have been deleted
InitFunded ==
  /\ accounts = [InitAccounts EXCEPT !["a1"].currentBalance = 1000]
  /\ users = InitUsers
  /\ investments = [i \in 1..MaxInv |-> NoInvestment]
  /\ ledger = {}
  /\ nextTx = 1
  /\ nextInv = 1
  /\ fineSettings = <<>>
  /\ last = NoResponse
  /\ undo = NoUndo
  /\ pc = [p \in Procs |-> "idle"]
  /\ loc = [p \in Procs |-> Idle]

NextInvest ==
  \/ AddInvestment
  \/ RecordInvestmentProfit
  \/ DeleteInvestment
  \/ CreateTransaction
  \/ DeleteTransaction
  \/ DeleteBankAccount
  \/ DeleteMember
  \/ Deliver

SpecInvest == InitFunded /\ [][NextInvest]_vars

\* the accrual desk: member m1 joined in any month up to the current one with
\* one or two shares; fines are reported, waived and paid with a deposit
\* batch while the policy is created and changed
InitFine ==
  /\ accounts = InitAccounts
  /\ \E shares \in 1..2, joinMonth \in 0..Today :
       users = [InitUsers EXCEPT !["m1"] = createMember(shares, joinMonth)]
  /\ investments = [i \in 1..MaxInv |-> NoInvestment]
  /\ ledger = {}
  /\ nextTx = 1
  /\ nextInv = 1
  /\ fineSettings = <<>>
  /\ last = NoResponse
  /\ undo = NoUndo
  /\ pc = [p \in Procs |-> "idle"]
  /\ loc = [p \in Procs |-> Idle]

NextFine ==
  \/ GetMemberSummary
  \/ GetDefaulterList
  \/ ProcessDeposit
  \/ WaiveFinePartial
  \/ GetFineSettings
  \/ UpdateFineSettings
  \/ Deliver

SpecFine == InitFine /\ [][NextFine]_vars

\* ------------------------------------------- two requests, call by call
\* The handlers below run without a session (addExpense, addBankAccount,
\* updateBankAccount): each await is a step of its own and the steps of two
\* requests interleave.  processDeposit runs in a transaction: it reads a
\* snapshot and its writes take effect together at commit, unless a document
\* it writes has changed since the snapshot (write conflict).
Finished(op, ok, err, acct, delta) ==
  [op |-> op, ok |-> ok, err |-> err, acct |-> acct, delta |-> delta]

ExpenseFind(p) ==
  /\ pc[p] = "idle"
  /\ \E amount \in Amounts, bankAccountId \in AccountIds :
       IF findById(accounts, bankAccountId) = None
       THEN /\ pc' = [pc EXCEPT ![p] = "done"]
            /\ loc' = [loc EXCEPT ![p] =
                         Finished("addExpense", FALSE, "NotFound", bankAccountId, 0)]
       ELSE /\ pc' = [pc EXCEPT ![p] = "expense_create"]
            /\ loc' = [loc EXCEPT ![p] =
                         [op |-> "addExpense", amount |-> amount,
                          bankAccountId |-> bankAccountId,
                          bank |-> accounts[bankAccountId]]]
  /\ UNCHANGED <<accounts, users, investments, ledger, nextTx, nextInv,
                 fineSettings, last, undo>>

ExpenseCreate(p) ==
  /\ pc[p] = "expense_create"
  /\ nextTx <= MaxTx
  /\ LET d == Insert(DB, Entry(None, "expense", "General Expense", None,
                               loc[p].amount, loc[p].bankAccountId, None, None,
                               NoRef))
     IN ledger' = d.ledger /\ nextTx' = d.nextTx
  /\ pc' = [pc EXCEPT ![p] = "expense_save"]
  /\ UNCHANGED <<accounts, users, investments, nextInv, fineSettings, last, undo, loc>>

\* bank.save(): $set of the balance computed from the document read earlier
ExpenseSave(p) ==
  /\ pc[p] = "expense_save"
  /\ accounts' = [accounts EXCEPT ![loc[p].bankAccountId].currentBalance =
                    loc[p].bank.currentBalance - loc[p].amount]
  /\ pc' = [pc EXCEPT ![p] = "done"]
  /\ loc' = [loc EXCEPT ![p] = Finished("addExpense", TRUE, None,
                                        loc[p].bankAccountId, -loc[p].amount)]
  /\ UNCHANGED <<users, investments, ledger, nextTx, nextInv, fineSettings, last, undo>>

AccountAddStart(p) ==
  /\ pc[p] = "idle"
  /\ \E body \in NewAccountBodies :
       IF body.isMotherAccount
       THEN /\ accounts' = ClearMother(DB).accounts
            /\ pc' = [pc EXCEPT ![p] = "account_create"]
            /\ loc' = [loc EXCEPT ![p] = [op |-> "addBankAccount", body |-> body]]
       ELSE /\ FirstFreeAccount(accounts) # None
            /\ accounts' = CreateAccount(DB, FirstFreeAccount(accounts), body).accounts
            /\ pc' = [pc EXCEPT ![p] = "done"]
            /\ loc' = [loc EXCEPT ![p] =
                         Finished("addBankAccount", TRUE, None, None, 0)]
  /\ UNCHANGED <<users, investments, ledger, nextTx, nextInv, fineSettings, last, undo>>

AccountAddCreate(p) ==
  /\ pc[p] = "account_create"
  /\ FirstFreeAccount(accounts) # None
  /\ accounts' = CreateAccount(DB, FirstFreeAccount(accounts), loc[p].body).accounts
  /\ pc' = [pc EXCEPT ![p] = "done"]
  /\ loc' = [loc EXCEPT ![p] = Finished("addBankAccount", TRUE, None, None, 0)]
  /\ UNCHANGED <<users, investments, ledger, nextTx, nextInv, fineSettings, last, undo>>

\* findByIdAndUpdate(id, {$set: body}) and the response
AccountSet(p, id, body) ==
  IF findById(accounts, id) = None
  THEN /\ UNCHANGED accounts
       /\ loc' = [loc EXCEPT ![p] =
                    Finished("updateBankAccount", FALSE, "NotFound", id, 0)]
  ELSE /\ accounts' = [accounts EXCEPT ![id] = SetBody(@, body)]
       /\ loc' = [loc EXCEPT ![p] = Finished("updateBankAccount", TRUE, None, id, 0)]

AccountUpdateStart(p) ==
  /\ pc[p] = "idle"
  /\ \E id \in AccountIds, body \in UpdateBodies :
       IF body.hasMother /\ body.isMotherAccount
       THEN /\ accounts' = ClearMother(DB).accounts
            /\ pc' = [pc EXCEPT ![p] = "account_update"]
            /\ loc' = [loc EXCEPT ![p] =
                         [op |-> "updateBankAccount", id |-> id, body |-> body]]
       ELSE /\ AccountSet(p, id, body)
            /\ pc' = [pc EXCEPT ![p] = "done"]
  /\ UNCHANGED <<users, investments, ledger, nextTx, nextInv, fineSettings, last, undo>>

AccountUpdateSet(p) ==
  /\ pc[p] = "account_update"
  /\ AccountSet(p, loc[p].id, loc[p].body)
  /\ pc' = [pc EXCEPT ![p] = "done"]
  /\ UNCHANGED <<users, investments, ledger, nextTx, nextInv, fineSettings, last, undo>>

DepositBegin(p) ==
  /\ pc[p] = "idle"
  /\ \E userIds \in SeqsUpTo(UserIds, MaxBatch) :
       \E paying \in PayingChoices(userIds) :
         loc' = [loc EXCEPT ![p] =
                   [op |-> "processDeposit", userIds |-> userIds,
                    membersPayingFine |-> paying,
                    snapAccounts |-> accounts, snapUsers |-> users]]
  /\ pc' = [pc EXCEPT ![p] = "deposit_commit"]
  /\ UNCHANGED <<accounts, users, investments, ledger, nextTx, nextInv,
                 fineSettings, last, undo>>

\* the writes of the session take effect at commit, unless a document the
\* request writes has changed since its snapshot
CommitDeposit(p, snap, r, mother, written) ==
  IF ~r.ok
  THEN /\ loc' = [loc EXCEPT ![p] = Finished("processDeposit", FALSE, r.err, None, 0)]
       /\ UNCHANGED <<accounts, users, ledger, nextTx>>
  ELSE IF \/ accounts[mother] # snap.accounts[mother]
          \/ \E u \in written : users[u] # snap.users[u]
  THEN /\ loc' = [loc EXCEPT ![p] =
                    Finished("processDeposit", FALSE, "WriteConflict", mother, 0)]
       /\ UNCHANGED <<accounts, users, ledger, nextTx>>
  ELSE /\ accounts' = [accounts EXCEPT ![mother] = r.db.accounts[mother]]
       /\ users' = [u \in UserIds |-> IF u \in written THEN r.db.users[u] ELSE users[u]]
       /\ ledger' = r.db.ledger
       /\ nextTx' = r.db.nextTx
       /\ loc' = [loc EXCEPT ![p] =
                    Finished("processDeposit", TRUE, None, mother,
                             r.db.accounts[mother].currentBalance
                               - snap.accounts[mother].currentBalance)]

Snapshot(p) == [DB EXCEPT !.accounts = loc[p].snapAccounts, !.users = loc[p].snapUsers]

DepositCommit(p) ==
  /\ pc[p] = "deposit_commit"
  /\ Room(processDeposit(Snapshot(p), fineSettings, ledger, loc[p].userIds,
                         loc[p].membersPayingFine, 0))
  /\ CommitDeposit(p, Snapshot(p),
                   processDeposit(Snapshot(p), fineSettings, ledger, loc[p].userIds,
                                  loc[p].membersPayingFine, 0),
                   MotherAccountOf(loc[p].snapAccounts),
                   {u \in Range(loc[p].userIds) : findById(loc[p].snapUsers, u) # None})
  /\ pc' = [pc EXCEPT ![p] = "done"]
  /\ UNCHANGED <<investments, nextInv, fineSettings, last, undo>>

NextConc ==
  \E p \in Procs :
    \/ ExpenseFind(p)
    \/ ExpenseCreate(p)
    \/ ExpenseSave(p)
    \/ AccountAddStart(p)
    \/ AccountAddCreate(p)
    \/ AccountUpdateStart(p)
    \/ AccountUpdateSet(p)
    \/ DepositBegin(p)
    \/ DepositCommit(p)

SpecConc == Init /\ [][NextConc]_vars

\* ------------------------------------- one write request, statement by statement
\* processDeposit and addInvestment notify the members.  The repository holds
\* two revisions of both handlers: the one the routes import
\* (financeController.js) and the one in memberController.js.  The request of
\* Worker is followed through its transaction, its commit, the notification
\* step and the response; loc[Worker] holds the state of the session (tx), the
\* notifications dispatched so far (sent), whether the notification step met
\* a failure (failed) and the response (outcome).
Worker == "p1"
Revisions == {"financeController", "memberController"}

\* what the handler dispatches after the commit, in order
AfterCommit(op, rev) ==
  IF op = "processDeposit"
  THEN (IF rev = "memberController" THEN <<"bell", "push", "email">> ELSE <<"email">>)
  ELSE (IF rev = "memberController" THEN <<"push", "bell">> ELSE <<"push">>)

Request(op, rev, userIds) ==
  [op |-> op, rev |-> rev, tx |-> "open", sent |-> {}, failed |-> FALSE,
   outcome |-> None, userIds |-> userIds, i |-> 0, pending |-> AfterCommit(op, rev)]

NotifyStep(at, l) ==
  /\ pc' = [pc EXCEPT ![Worker] = at]
  /\ loc' = [loc EXCEPT ![Worker] = l]
  /\ UNCHANGED <<accounts, users, investments, ledger, nextTx, nextInv, fineSettings,
                 last, undo>>

\* session.startTransaction(); the mother account is looked up
StartDeposit ==
  /\ pc[Worker] = "idle"
  /\ \E rev \in Revisions, userIds \in SeqsUpTo(UserIds, MaxBatch) :
       LET r0 == processDeposit(DB, fineSettings, ledger, userIds, {}, 0)
       IN /\ Room(r0)
          /\ NotifyStep(IF r0.ok THEN "loop" ELSE "throw",
                        Request("processDeposit", rev, userIds))

\* session.startTransaction(); the funding account is validated
StartInvestment ==
  /\ pc[Worker] = "idle"
  /\ nextInv <= MaxInv
  /\ \E rev \in Revisions :
       LET r0 == addInvestment(DB, "P", 1000, "a1", 0)
       IN /\ Room(r0)
          /\ NotifyStep(IF r0.ok THEN "writes" ELSE "throw",
                        Request("addInvestment", rev, <<>>))

\* the loop body for userIds[i + 1]: the member's writes go through the
\* session; financeController.js then calls sendPushNotification for a member
\* with a token
DepositMember ==
  /\ pc[Worker] = "loop"
  /\ loc[Worker].i < Len(loc[Worker].userIds)
  /\ LET l == loc[Worker]
         next == [l EXCEPT !.i = @ + 1]
     IN \/ NotifyStep("loop", next)
        \/ /\ l.rev = "financeController"
           /\ findById(users, l.userIds[l.i + 1]) # None
           /\ NotifyStep("loop", [next EXCEPT !.sent = @ \cup {"push"}])
        \/ /\ findById(users, l.userIds[l.i + 1]) # None
           /\ NotifyStep("throw", l)

\* the writes after the loop (motherAccount.save) or of addInvestment
\* (Investment.create, fundingBank.save, Transaction.create)
StageWrites ==
  /\ \/ pc[Worker] = "writes"
     \/ pc[Worker] = "loop" /\ loc[Worker].i = Len(loc[Worker].userIds)
  /\ \/ NotifyStep("commit", loc[Worker])
     \/ NotifyStep("throw", loc[Worker])

\* session.commitTransaction(): the writes of the session are stored together
Committed(l, r) ==
  /\ accounts' = r.db.accounts
  /\ users' = r.db.users
  /\ investments' = r.db.investments
  /\ ledger' = r.db.ledger
  /\ nextTx' = r.db.nextTx
  /\ nextInv' = r.db.nextInv
  /\ pc' = [pc EXCEPT ![Worker] =
              IF l.op = "addInvestment" THEN "lookup" ELSE "dispatch"]
  /\ loc' = [loc EXCEPT ![Worker] = [l EXCEPT !.tx = "committed"]]
  /\ UNCHANGED <<fineSettings, last, undo>>

Commit ==
  /\ pc[Worker] = "commit"
  /\ \/ NotifyStep("throw", loc[Worker])
     \/ Committed(loc[Worker],
                  IF loc[Worker].op = "processDeposit"
                  THEN processDeposit(DB, fineSettings, ledger,
                                      loc[Worker].userIds, {}, 0)
                  ELSE addInvestment(DB, "P", 1000, "a1", 0))

\* addInvestment, after the commit: User.find of the members with tokens.
\* memberController.js runs it inside try/catch; in financeController.js a
\* rejection reaches the catch of the handler
FindRecipients ==
  /\ pc[Worker] = "lookup"
  /\ LET l == loc[Worker]
     IN \/ NotifyStep("dispatch", l)
        \/ NotifyStep(IF l.rev = "memberController" THEN "respond" ELSE "throw",
                      [l EXCEPT !.failed = TRUE])

\* the next dispatch after the commit; a failure is logged and swallowed
\* (.catch, Promise.allSettled, the try/catch of sendPushNotification)
Dispatch ==
  /\ pc[Worker] = "dispatch"
  /\ LET l == loc[Worker]
         rest == Tail(l.pending)
         at == IF rest = <<>> THEN "respond" ELSE "dispatch"
     IN \/ NotifyStep(at, [l EXCEPT !.pending = rest, !.sent = @ \cup {Head(l.pending)}])
        \/ NotifyStep(at, [l EXCEPT !.pending = rest, !.failed = TRUE])

\* catch (error): abortTransaction if the session is in a transaction, then
\* the error response
Catch ==
  /\ pc[Worker] = "throw"
  /\ LET l == loc[Worker]
     IN NotifyStep("done", [l EXCEPT !.tx = IF @ = "open" THEN "aborted" ELSE @,
                                     !.outcome = "failure"])

\* res.status(201)
RespondSuccess ==
  /\ pc[Worker] = "respond"
  /\ NotifyStep("done", [loc[Worker] EXCEPT !.outcome = "success"])

Finish ==
  /\ pc[Worker] = "done"
  /\ NotifyStep("idle", Idle)

NextNotify ==
  \/ StartDeposit
  \/ StartInvestment
  \/ DepositMember
  \/ StageWrites
  \/ Commit
  \/ FindRecipients
  \/ Dispatch
  \/ Catch
  \/ RespondSuccess
  \/ Finish

SpecNotify == InitFunded /\ [][NextNotify]_vars

\* the fine policy desk: two requests on the FineSetting collection
\* interleave.  getFineSettings is findOne() followed, when nothing was
\* found, by create(); updateFineSettings is one findOneAndUpdate with
\* upsert.  The collection carries no unique index.
DefaultPolicy == [gracePeriodMonths |-> 1, finePercentage |-> 5]

PolicyFindOne(p) ==
  /\ pc[p] = "idle"
  /\ loc' = [loc EXCEPT ![p] =
               [op |-> "getFineSettings", ok |-> TRUE,
                omitted |-> FALSE,
                settings |-> IF Len(fineSettings) = 0 THEN DefaultPolicy
                             ELSE fineSettings[1]]]
  /\ pc' = [pc EXCEPT ![p] = IF Len(fineSettings) = 0 THEN "policy_create"
                             ELSE "policy_respond"]
  /\ UNCHANGED <<accounts, users, investments, ledger, nextTx, nextInv,
                 fineSettings, last, undo>>

PolicyCreate(p) ==
  /\ pc[p] = "policy_create"
  /\ fineSettings' = Append(fineSettings, DefaultPolicy)
  /\ loc' = [loc EXCEPT ![p].settings = DefaultPolicy]
  /\ pc' = [pc EXCEPT ![p] = "policy_respond"]
  /\ UNCHANGED <<accounts, users, investments, ledger, nextTx, nextInv, last, undo>>

PolicyUpdate(p) ==
  /\ pc[p] = "idle"
  /\ \E gracePeriodMonths \in {Undefined, 0, 2},
        finePercentage \in {Undefined, 5, 10} :
       /\ fineSettings' = updateFineSettings(fineSettings, gracePeriodMonths,
                                             finePercentage)
       /\ loc' = [loc EXCEPT ![p] =
                    [op |-> "updateFineSettings",
                     ok |-> ~ParametersRequired(gracePeriodMonths, finePercentage),
                     omitted |-> gracePeriodMonths = Undefined
                                   \/ finePercentage = Undefined,
                     settings |-> [gracePeriodMonths |-> gracePeriodMonths,
                                   finePercentage |-> finePercentage]]]
  /\ pc' = [pc EXCEPT ![p] = "policy_respond"]
  /\ UNCHANGED <<accounts, users, investments, ledger, nextTx, nextInv, last, undo>>

PolicyRespond(p) ==
  /\ pc[p] = "policy_respond"
  /\ pc' = [pc EXCEPT ![p] = "idle"]
  /\ loc' = [loc EXCEPT ![p] = Idle]
  /\ UNCHANGED <<accounts, users, investments, ledger, nextTx, nextInv,
                 fineSettings, last, undo>>

NextPolicy ==
  \/ \E p \in Procs : PolicyFindOne(p)
  \/ \E p \in Procs : PolicyCreate(p)
  \/ \E p \in Procs : PolicyUpdate(p)
  \/ \E p \in Procs : PolicyRespond(p)

SpecPolicy == Init /\ [][NextPolicy]_vars

\* the session desk: the handlers that open a transaction on entry, followed
\* through try, catch and finally.  tx is the state of the transaction of the
\* request's session; commits and aborts count the calls that ended it.
\* session.endSession() aborts a transaction that is still in progress.
HasFinally(op) == op \in {"recordInvestmentProfit", "deleteTransaction"}

\* the guard of the handler's `return res.status(...)` inside try
ReturnsEarly(q) ==
  IF q.op \in {"deleteInvestment", "recordInvestmentProfit"}
  THEN findInvestment(investments, q.id) = NoRef
  ELSE IF q.op = "deleteTransaction" THEN ~\E e \in ledger : e._id = q.id
  ELSE q.amount = 0

\* the statements of the try block after the early return
SessionResult(q, failAt) ==
  IF q.op = "deleteInvestment" THEN deleteInvestment(DB, q.id, q.amount, "a1", failAt)
  ELSE IF q.op = "recordInvestmentProfit"
  THEN recordInvestmentProfit(DB, q.id, q.amount, "profit", "a1", failAt)
  ELSE IF q.op = "deleteTransaction" THEN deleteTransaction(DB, q.id, failAt)
  ELSE createTransaction(DB, "deposit", "other", None, q.amount, None, "a1", failAt)

SessionStep(at, l) ==
  /\ pc' = [pc EXCEPT ![Worker] = at]
  /\ loc' = [loc EXCEPT ![Worker] = l]
  /\ UNCHANGED <<accounts, users, investments, ledger, nextTx, nextInv, fineSettings,
                 last, undo>>

\* mongoose.startSession(); session.startTransaction()
SessionStart ==
  /\ pc[Worker] = "idle"
  /\ Ready
  /\ \E op \in {"deleteInvestment", "recordInvestmentProfit", "deleteTransaction",
                "createTransaction"},
        id \in 1..MaxTx, amount \in {0} \cup Amounts :
       SessionStep("try", [op |-> op, id |-> id, amount |-> amount, tx |-> "open",
                           commits |-> 0, aborts |-> 0, ended |-> FALSE,
                           status |-> 0])

\* the try block ran to commitTransaction (and endSession where the handler
\* calls it there) and answered, or threw
SessionTried(l, r) ==
  IF r.ok
  THEN /\ accounts' = r.db.accounts
       /\ users' = r.db.users
       /\ investments' = r.db.investments
       /\ ledger' = r.db.ledger
       /\ nextTx' = r.db.nextTx
       /\ nextInv' = r.db.nextInv
       /\ pc' = [pc EXCEPT ![Worker] = "finally"]
       /\ loc' = [loc EXCEPT ![Worker] =
                    [l EXCEPT !.tx = "committed", !.commits = @ + 1,
                              !.ended = ~HasFinally(l.op), !.status = 200]]
       /\ UNCHANGED <<fineSettings, last, undo>>
  ELSE SessionStep("catch", l)

SessionTry ==
  /\ pc[Worker] = "try"
  /\ IF ReturnsEarly(loc[Worker])
     THEN SessionStep("finally", [loc[Worker] EXCEPT !.status = 404])
     ELSE /\ Room(SessionResult(loc[Worker], 0))
          /\ \E failAt \in FailPoints(SessionResult(loc[Worker], 0)) :
               SessionTried(loc[Worker], SessionResult(loc[Worker], failAt))

\* catch (error): abortTransaction (and endSession where the handler calls
\* it there), then the error response
SessionCatch ==
  /\ pc[Worker] = "catch"
  /\ SessionStep("finally",
                 [loc[Worker] EXCEPT !.tx = "aborted", !.aborts = @ + 1,
                                     !.ended = ~HasFinally(loc[Worker].op),
                                     !.status = 500])

\* finally { session.endSession() } of the handlers that have one
SessionFinally ==
  /\ pc[Worker] = "finally"
  /\ LET l == loc[Worker]
     IN IF HasFinally(l.op)
        THEN SessionStep("responded",
                         [l EXCEPT !.ended = TRUE,
                                   !.tx = IF @ = "open" THEN "aborted" ELSE @,
                                   !.aborts = IF l.tx = "open" THEN @ + 1 ELSE @])
        ELSE SessionStep("responded", l)

SessionFinish ==
  /\ pc[Worker] = "responded"
  /\ SessionStep("idle", Idle)

NextSession ==
  \/ SessionStart
  \/ SessionTry
  \/ SessionCatch
  \/ SessionFinally
  \/ SessionFinish
  \/ (pc[Worker] = "idle" /\ AddInvestment)
  \/ Deliver

SpecSession == InitFunded /\ [][NextSession]_vars

\* the calendar: the month in which the server evaluates `new Date()` moves
\* on, month by month, while a member's waivers and the policy are recorded
InitClock ==
  /\ accounts = InitAccounts
  /\ \E shares \in 1..2, joinMonth \in 0..Today :
       users = [InitUsers EXCEPT !["m1"] = createMember(shares, joinMonth)]
  /\ investments = [i \in 1..MaxInv |-> NoInvestment]
  /\ ledger = {}
  /\ nextTx = 1
  /\ nextInv = 1
  /\ fineSettings = <<>>
  /\ last = NoResponse
  /\ undo = NoUndo
  /\ pc = [p \in Procs |-> "idle"]
  /\ loc = [p \in Procs |-> IF p = Worker THEN [op |-> "clock", today |-> 0]
                            ELSE Idle]

\* the first day of the next calendar month
Tick ==
  /\ loc[Worker].today < Today
  /\ loc' = [loc EXCEPT ![Worker].today = @ + 1]
  /\ UNCHANGED <<accounts, users, investments, ledger, nextTx, nextInv, fineSettings,
                 last, undo, pc>>

NextClock ==
  \/ Tick
  \/ WaiveFinePartial
  \/ UpdateFineSettings
  \/ Deliver

SpecClock == InitClock /\ [][NextClock]_vars

\* ================================================================ properties
\* what one ledger entry contributes to the balance of account a
EntryEffect(e, a) ==
  IF e.type = "transfer"
  THEN (IF e.toAccount = a THEN e.amount ELSE 0)
       - (IF e.fromAccount = a THEN e.amount ELSE 0)
  ELSE IF e.bankAccount # a THEN 0
  ELSE IF e.type = "deposit" THEN e.amount
  ELSE IF e.type \in {"expense", "investment"} THEN 0 - e.amount
  ELSE 0

LedgerBalance(ldg, a) ==
  SumOver({e._id : e \in ldg},
          [i \in {e._id : e \in ldg} |-> EntryEffect(CHOOSE e \in ldg : e._id = i, a)])

BalancesMatchLedger(accts, ldg) ==
  \A a \in AccountIds :
    Live(accts[a]) => accts[a].currentBalance = LedgerBalance(ldg, a)

TransactionalOps ==
  {"processDeposit", "addInvestment", "recordInvestmentProfit", "deleteInvestment",
   "transferBalance", "createTransaction", "collectPaidFine", "deleteTransaction"}

\* C1: a request that reports success takes a state in which every treasury
\* account's currentBalance is the signed sum of the ledger entries referencing
\* it (+deposit, -expense, -investment, transfer: +destination, -source) to a
\* state in which that is still so; as it is so initially, it would be so
\* after any sequence of committed operations.
C1_BalanceIsSignedLedgerSum ==
  [][(last'.ok /\ BalancesMatchLedger(accounts, ledger))
       => BalancesMatchLedger(accounts', ledger')]_vars

\* C2: once a request has created ledger entries and the following requests
\* have deleted each of them with deleteTransaction, every account balance,
\* every member's totalDeposited and every investment's totalProfit is back at
\* its value before the request.
C2_DeleteRestoresTotals ==
  (undo.active /\ undo.pending = {}) =>
     /\ \A a \in AccountIds :
          Live(accounts[a]) => accounts[a].currentBalance = undo.pre.balance[a]
     /\ \A u \in UserIds :
          Live(users[u]) => users[u].totalDeposited = undo.pre.deposited[u]
     /\ \A i \in DOMAIN investments :
          Live(investments[i]) => investments[i].totalProfit = undo.pre.profit[i]

\* C3: a transactional operation that fails leaves accounts, members,
\* investments and the ledger exactly as they were before the call, at
\* whichever of its writes the failure is raised.
C3_FailedTransactionChangesNothing ==
  [][(last'.op \in TransactionalOps /\ ~last'.ok)
       => /\ accounts' = accounts
          /\ users' = users
          /\ investments' = investments
          /\ ledger' = ledger]_vars

\* a transactional operation has failed after it had already written
C3_Witness ==
  last.op \in TransactionalOps /\ ~last.ok /\ last.wrote

\* C4: no step stores an expense entry without deducting its amount from the
\* named account in the same step, so no state holds, and no reader sees, an
\* expense entry without its deduction.
C4_ExpenseEntryComesWithDeduction ==
  [][\A e \in ledger' \ ledger :
       (e.type = "expense" /\ e.category = "General Expense")
         => accounts'[e.bankAccount].currentBalance
              = accounts[e.bankAccount].currentBalance - e.amount]_vars

\* the signed amounts that the finished, successful requests report for a
SucceededOn(a) ==
  {p \in Procs : pc[p] = "done" /\ loc[p].ok /\ loc[p].acct = a
                 /\ loc[p].op \in {"addExpense", "processDeposit"}}

ReportedDelta(a) ==
  SumOver(SucceededOn(a), [p \in SucceededOn(a) |-> loc[p].delta])

\* C5: when two concurrent balance-mutating requests on one account have both
\* reported success, the account's balance is its starting balance plus the
\* signed amounts of both.
C5_BothUpdatesReflected ==
  \A a \in AccountIds :
    (SucceededOn(a) = Procs /\ Live(accounts[a]))
      => accounts[a].currentBalance
           = InitAccounts[a].currentBalance + ReportedDelta(a)

MotherAccounts(accts) ==
  {a \in AccountIds : Live(accts[a]) /\ accts[a].isMotherAccount}

\* C6: after a call that sets the primary flag (addBankAccount or
\* updateBankAccount with isMotherAccount = true), whatever id it names and
\* whatever it reports, exactly one account has isMotherAccount = true.
C6_ExactlyOnePrimaryAfterSet ==
  last.kind = "setPrimary" => Cardinality(MotherAccounts(accounts)) = 1

\* C7: in every state of two interleaved addBankAccount / updateBankAccount
\* requests at most one account has isMotherAccount = true.
C7_AtMostOnePrimary ==
  Cardinality(MotherAccounts(accounts)) <= 1

DepositedInLedger(ldg, u) ==
  SumAmounts({e \in ldg : e.user = u /\ e.type = "deposit"
                          /\ e.category # "fine_payment"})

\* C8: each member's totalDeposited is the sum of the amounts of that member's
\* deposit entries whose category is not fine_payment.
C8_TotalDepositedIsLedgerSum ==
  \A u \in UserIds :
    Live(users[u]) => users[u].totalDeposited = DepositedInLedger(ledger, u)

FinesIn(E, u) == SumAmounts({e \in E : e.user = u /\ e.category = "fine_payment"})

\* C9: a committed deposit batch raises the primary account's balance by the
\* sum over the processed members of shareAmount + the fine collected from the
\* member, and each processed member's totalDeposited by that member's
\* shareAmount.
C9_BatchTotals ==
  [][(last'.op = "processDeposit" /\ last'.ok)
       => LET new == ledger' \ ledger
              processed == {e.user : e \in new}
              mother == MotherAccountOf(accounts)
          IN /\ accounts'[mother].currentBalance - accounts[mother].currentBalance
                  = SumOver(processed,
                            [u \in processed |->
                               ShareAmount(users[u]) + FinesIn(new, u)])
             /\ \A u \in processed :
                  users'[u].totalDeposited - users[u].totalDeposited
                    = ShareAmount(users[u])]_vars

\* C10: every monthly_deposit entry of a committed deposit batch has the amount
\* shares * monthlySubscription of its member, and the member's totalDeposited
\* grows by that amount for each such entry.
C10_SharesTimesSubscription ==
  [][(last'.op = "processDeposit" /\ last'.ok)
       => LET new == {e \in ledger' \ ledger : e.category = "monthly_deposit"}
          IN /\ \A e \in new :
                  e.amount = users[e.user].shares * users[e.user].monthlySubscription
             /\ \A u \in {e.user : e \in new} :
                  users'[u].totalDeposited - users[u].totalDeposited
                    = Cardinality({e \in new : e.user = u})
                        * users[u].shares * users[u].monthlySubscription]_vars
\* C11: an addInvestment request whose amount exceeds the balance of the
\* funding account is answered with the insufficient-funds error, and the
\* accounts, the ledger and the investments are what they were before it.
C11_OverdrawnInvestmentRejected ==
  [][(last'.op = "addInvestment" /\ last'.kind = "overdraw")
       => (/\ ~last'.ok
           /\ last'.err = "InsufficientFunds"
           /\ accounts' = accounts
           /\ ledger' = ledger
           /\ investments' = investments)]_vars

C11_Witness ==
  /\ last.op = "addInvestment"
  /\ last.kind = "overdraw"
  /\ last.err = "InsufficientFunds"

ReferencedProfit(ldg, i) ==
  SumAmounts({e \in ldg : e.referenceId = i /\ e.category = "investment_profit"})
    - SumAmounts({e \in ldg : e.referenceId = i /\ e.category = "investment_expense"})

C14_TotalProfitIsReferencedSum ==
  \A i \in 1..MaxInv :
    Live(investments[i]) => investments[i].totalProfit = ReferencedProfit(ledger, i)

\* C15: a deleteInvestment request on a stored investment whose body carries
\* a closingValue credits exactly that value to the target account, appends
\* exactly one liquidation entry of that amount on that account and deletes
\* the investment; without a closingValue it deletes the investment and
\* leaves every balance and the ledger alone; a request that fails changes
\* nothing.
InvestmentDeleted(before, after) ==
  \E i \in 1..MaxInv :
    /\ Live(before[i])
    /\ after = [before EXCEPT ![i] = GoneInvestment]

C15_LiquidationCreditsTarget ==
  [][(last'.op = "deleteInvestment" /\ last'.kind # None)
       => IF ~last'.ok
          THEN accounts' = accounts /\ ledger' = ledger /\ investments' = investments
          ELSE IF last'.kind = "noClosingValue"
          THEN /\ accounts' = accounts
               /\ ledger' = ledger
               /\ InvestmentDeleted(investments, investments')
          ELSE /\ last'.kind \in AccountIds
               /\ InvestmentDeleted(investments, investments')
               /\ ledger \subseteq ledger'
               /\ Cardinality(ledger' \ ledger) = 1
               /\ \A e \in ledger' \ ledger :
                    /\ e.type = "deposit"
                    /\ e.bankAccount = last'.kind
                    /\ e.amount \in Amounts
                    /\ accounts' = [accounts EXCEPT
                                      ![last'.kind].currentBalance = @ + e.amount]]_vars

\* C16: a request that names a record that is not stored (a member id of a
\* deposit batch, the target account of a liquidation with a closingValue,
\* the bank account of a profit record, the destination of a transfer) fails
\* and leaves the accounts, the members, the investments and the ledger as
\* they were.
NamesMissingRecord ==
  {"missingMember", "noTarget", "noBank", "overdrawNoDestination"}

C16_MissingRecordRejected ==
  [][(last'.kind \in NamesMissingRecord)
       => (/\ ~last'.ok
           /\ accounts' = accounts
           /\ users' = users
           /\ investments' = investments
           /\ ledger' = ledger)]_vars

\* C17: deleteTransaction on an entry that names an account, a member or an
\* investment that is no longer stored does not fail for that reason: it
\* removes the entry, reverses the entry's effect on each named record that
\* is still stored (the account's balance, the member's totalDeposited, the
\* investment's totalProfit) and touches nothing else.
ReversedBalance(e, accts) ==
  IF NamesAccount(e) /\ findById(accts, e.bankAccount) # None
  THEN [accts EXCEPT ![e.bankAccount].currentBalance =
          IF e.type = "deposit" THEN @ - e.amount
          ELSE IF e.type = "expense" THEN @ + e.amount ELSE @]
  ELSE accts

ReversedDeposited(e, usrs) ==
  IF NamesMember(e) /\ findById(usrs, e.user) # None
  THEN [usrs EXCEPT ![e.user].totalDeposited = @ - e.amount]
  ELSE usrs

ReversedProfit(e, invs) ==
  IF NamesInvestment(e) /\ findInvestment(invs, e.referenceId) # NoRef
  THEN [invs EXCEPT ![e.referenceId].totalProfit =
          IF e.type = "deposit" THEN @ - e.amount ELSE @ + e.amount]
  ELSE invs

C17_DanglingReversalSkipsOnlyMissing ==
  [][(last'.op = "deleteTransaction" /\ last'.kind = "dangling")
       => IF last'.ok
          THEN \E e \in ledger :
                 /\ Dangling(DB, e)
                 /\ ledger' = ledger \ {e}
                 /\ accounts' = ReversedBalance(e, accounts)
                 /\ users' = ReversedDeposited(e, users)
                 /\ investments' = ReversedProfit(e, investments)
          ELSE /\ last'.err = "Exception"
               /\ ledger' = ledger
               /\ accounts' = accounts
               /\ users' = users
               /\ investments' = investments]_vars

\* the profit entry of a deleted investment was removed: its account, still
\* stored, is back at the balance it had after the funding
C17_Witness ==
  /\ last.op = "deleteTransaction"
  /\ last.kind = "dangling"
  /\ last.ok
  /\ \E i \in 1..MaxInv : investments[i].status = "gone"
  /\ \A e \in ledger : e.type = "investment"
  /\ \E e \in ledger :
       Live(accounts[e.bankAccount]) /\ accounts[e.bankAccount].currentBalance = 0

\* C18: calculateFineLogic returns, as months, the number of calendar months
\* from the one after the joining month to the one before the current month
\* that ended more than gracePeriodMonths months ago, and, as fine, the
\* rounded sum over those months of monthsAgoFinished x shares x
\* monthlySubscription x finePercentage / 100, less the reductions and never
\* below zero.  The ages of the months run from gracePeriodMonths + 1 to the
\* age of the month after the joining month, so the sum has a closed form.
\* A member with one share at 1000 who joined five months ago owes, at grace
\* 1 and 5 percent with no reductions, 250 for 2 months.
PolicySeen == FineSettingOf(fineSettings, ReportDefaultSettings)

\* monthsAgoFinished of the month after the joining month
OldestAge(member) == Today - member.joinMonth - 2

ExpectedMonths(member, settings) ==
  IF OldestAge(member) > settings.gracePeriodMonths
  THEN OldestAge(member) - settings.gracePeriodMonths
  ELSE 0

ExpectedFine(member, settings, totalReductions) ==
  LET K == OldestAge(member)
      g == settings.gracePeriodMonths
      ages == IF K > g THEN (K * (K + 1) - g * (g + 1)) \div 2 ELSE 0
      gross100 == ages * member.shares * member.monthlySubscription
                    * settings.finePercentage
      rounded == (2 * gross100 + 100) \div 200
  IN IF rounded > totalReductions THEN rounded - totalReductions ELSE 0

JoinedFiveMonthsAgo(u) ==
  /\ users[u] = createMember(1, Today - 5)
  /\ PolicySeen = [gracePeriodMonths |-> 1, finePercentage |-> 5]
  /\ FineReductions(ledger, u) = 0

RegistryFigures(u) ==
  LET list == getDefaulterList(DB, fineSettings)
  IN IF u \in DOMAIN list THEN list[u]
     ELSE [totalFineDue |-> 0, overdueMonths |-> 0]

DepositFine(u) ==
  LET r == processDeposit(DB, fineSettings, ledger, <<u>>, {u}, 0)
  IN SumAmounts({e \in r.db.ledger \ ledger : e.category = "fine_payment"})

C19_SameFineEverywhere ==
  \A u \in UserIds :
    Live(users[u]) =>
      /\ getMemberSummary(DB, fineSettings, u) = RegistryFigures(u)
      /\ DepositFine(u) = RegistryFigures(u).totalFineDue

\* C20 as stated: a member whose overdue-month count is at most
\* gracePeriodMonths owes no fine.
C20_WithinGraceCountNoFine ==
  \A u \in UserIds :
    Live(users[u]) =>
      LET c == calculateFineLogic(users[u], PolicySeen, FineReductions(ledger, u))
      IN c.months <= PolicySeen.gracePeriodMonths => c.fine = 0

\* C20 amended: a member with no overdue month (no month that ended more than
\* gracePeriodMonths months ago) owes no fine, whatever was waived or paid.
C20_NoOverdueMonthNoFine ==
  \A u \in UserIds :
    Live(users[u]) =>
      LET c == calculateFineLogic(users[u], PolicySeen, FineReductions(ledger, u))
      IN c.months = 0 => c.fine = 0

C20_Witness ==
  /\ last.op = "getDefaulterList"
  /\ \E u \in UserIds :
       /\ Live(users[u])
       /\ OldestAge(users[u]) <= PolicySeen.gracePeriodMonths
       /\ FineReductions(ledger, u) > 0
       /\ u \notin DOMAIN last.data

\* C21: the fine calculateFineLogic returns is never negative, however much
\* the member's waivers and fine payments exceed the gross fine.
C21_NetFineNeverNegative ==
  \A u \in UserIds :
    Live(users[u]) =>
      calculateFineLogic(users[u], PolicySeen, FineReductions(ledger, u)).fine >= 0

\* a member owes a gross fine and more than that has been waived or paid
C21_Witness ==
  /\ last.op = "getDefaulterList"
  /\ \E u \in UserIds :
       /\ Live(users[u])
       /\ ExpectedFine(users[u], PolicySeen, 0) > 0
       /\ FineReductions(ledger, u) > ExpectedFine(users[u], PolicySeen, 0)

\* C22: no notification of a write request is dispatched while its
\* transaction is still open, and none for a request whose transaction
\* aborts: whenever something has been dispatched, the transaction has
\* committed.
C22_DispatchOnlyAfterCommit ==
  pc[Worker] # "idle" =>
    (loc[Worker].sent # {} => loc[Worker].tx = "committed")

\* C23: once the transaction has committed, a failure met in the notification
\* step changes no stored record and is not answered with a failure.
C23_NotificationFailureNotSurfaced ==
  [][(pc[Worker] # "idle" /\ pc'[Worker] # "idle" /\ loc[Worker].tx = "committed")
       => (/\ loc'[Worker].failed => loc'[Worker].outcome # "failure"
           /\ accounts' = accounts
           /\ users' = users
           /\ investments' = investments
           /\ ledger' = ledger)]_vars

\* what a new entry moves on the one account it names in bankAccount
BankAccountEffect(e, a) ==
  IF e.category = "fine_waiver" \/ e.bankAccount # a THEN 0
  ELSE IF e.type \in {"deposit", "transfer"} THEN e.amount
  ELSE IF e.type \in {"expense", "investment"} THEN 0 - e.amount
  ELSE 0

EntriesMove(ldg, a) ==
  SumOver({e._id : e \in ldg},
          [i \in {e._id : e \in ldg} |->
             BankAccountEffect(CHOOSE e \in ldg : e._id = i, a)])

C25_OnePolicyAndValidatedUpdate ==
  [][/\ Len(fineSettings') <= 1
     /\ \A p \in Procs :
          (pc[p] = "idle" /\ loc'[p].op = "updateFineSettings"
             /\ loc'[p].omitted)
            => (~loc'[p].ok /\ fineSettings' = fineSettings)]_vars

\* C26: deleteBankAccount removes no account whose balance is not zero, and
\* a deleteBankAccount request that fails leaves the accounts, the members,
\* the investments and the ledger as they were.
C26_NoDeleteWithBalance ==
  [][(last'.op = "deleteBankAccount")
       => /\ \A a \in AccountIds :
               (Live(accounts[a]) /\ ~Live(accounts'[a]))
                 => accounts[a].currentBalance = 0
          /\ ~last'.ok => (/\ accounts' = accounts
                           /\ users' = users
                           /\ investments' = investments
                           /\ ledger' = ledger)]_vars

\* the money held on all treasury accounts together
TreasuryTotal(accts) ==
  SumOver(AccountIds, [a \in AccountIds |-> accts[a].currentBalance])

\* C27: a transferBalance request that reports success leaves the sum of all
\* account balances as it was, whichever source and destination it names;
\* when both name the same account, that account's balance is unchanged.
C27_TransferKeepsTreasuryTotal ==
  [][(last'.op = "transferBalance" /\ last'.ok)
       => TreasuryTotal(accounts') = TreasuryTotal(accounts)]_vars

\* the fine_payment entries a deposit batch userIds, every member of it paying
\* the fine, would commit for member u from the present state
BatchFine(userIds, u) ==
  LET r == processDeposit(DB, fineSettings, ledger, userIds, Range(userIds), 0)
  IN SumAmounts({e \in r.db.ledger \ ledger :
                   e.category = "fine_payment" /\ e.user = u})

\* the net fine member u owes before the batch, under the policy the batch reads
OwedBeforeBatch(u) ==
  calculateFineLogic(users[u], FineSettingOf(fineSettings, DepositDefaultSettings),
                     FineReductions(ledger, u)).fine

\* C28: the fine_payment entries one deposit batch creates for a member never
\* add up to more than the net fine the member owed before the batch, also
\* when the member's id occurs more than once in userIds.
C28_BatchFineAtMostOwed ==
  \A userIds \in SeqsUpTo(UserIds, MaxBatch) :
    \A u \in Range(userIds) :
      Live(users[u]) => BatchFine(userIds, u) <= OwedBeforeBatch(u)

\* C29: when a handler that started a transaction has responded and returned,
\* on whichever path, its transaction has been ended by exactly one commit or
\* one abort and is not left open.
C29_TransactionEndedOnEveryPath ==
  pc[Worker] = "responded" =>
    /\ loc[Worker].tx # "open"
    /\ loc[Worker].commits + loc[Worker].aborts = 1

\* C30: with the member, the policy and the total of the reductions fixed,
\* calculateFineLogic returns from one calendar month to the next an
\* overdue-month count and a fine that are at least what they were.
C30_FineNeverDecreasesWithTime ==
  [][(loc'[Worker].today = loc[Worker].today + 1)
       => \A u \in UserIds :
            Live(users[u]) =>
              LET before == calculateFineLogicAt(loc[Worker].today, users[u],
                              PolicySeen, FineReductions(ledger, u))
                  after == calculateFineLogicAt(loc'[Worker].today, users'[u],
                              PolicySeen', FineReductions(ledger', u))
              IN /\ after.months >= before.months
                 /\ after.fine >= before.fine]_vars

\* a month has passed in which a member with a waiver on record came to owe
\* more than the month before
C30_Witness ==
  /\ loc[Worker].today > 0
  /\ \E u \in UserIds :
       /\ Live(users[u])
       /\ FineReductions(ledger, u) > 0
       /\ calculateFineLogicAt(loc[Worker].today, users[u], PolicySeen,
                               FineReductions(ledger, u)).fine
            > calculateFineLogicAt(loc[Worker].today - 1, users[u], PolicySeen,
                                   FineReductions(ledger, u)).fine

====
